---- MODULE Spec2Model ----
(***************************************************************************)
(* Device-bound TOTP service: EnterpriseOTPService (app/otp_service.py)    *)
(* over the devices and audit_logs tables (app/database.py), driven by     *)
(* concurrent request sessions, together with the client-side generator    *)
(* ClientOTP.                                                              *)
(*                                                                         *)
(* Every request owns a SQLAlchemy session (get_db).  A statement reads    *)
(* the committed tables; rows added to a session stay pending until        *)
(* db.commit() and are discarded when the session is closed without one.   *)
(* One action is one database round trip of a handler together with the    *)
(* Python code that follows it up to the next round trip.                  *)
(***************************************************************************)
EXTENDS Integers, Sequences, FiniteSets, TLC

VARIABLES devices, audit_logs, now, ticks, sess, key_responses, attempts, workload,
          engine

vars == <<devices, audit_logs, now, ticks, sess, key_responses, attempts, workload, engine>>

----------------------------------------------------------------------------
(* Bounds of the model.                                                    *)

\* wall clock at the start, unix seconds
StartTime == 1700000010
\* clock advances per behaviour in the general workload
MaxTicks == 1
\* clock advances per behaviour in the rate-limit workload
MaxTicksRate == 1
\* rows of audit_logs in the general workload
MaxAudit == 3
\* rows of audit_logs in the rate-limit workload
MaxAuditRate == 12
\* recorded wrong-code attempts in the rate-limit workload
MaxWrongRate == 1
\* rows of audit_logs in the storm workload
MaxAuditStorm == 13
\* rows of audit_logs in the two-device workload
MaxAuditPair == 4

DeviceIds == {"d1", "d2"}
UserIds == {"u1"}
Sessions == {1, 2}
TickSizes == {30, 120, 300}

----------------------------------------------------------------------------
(* Configuration (app/config.py) and literals of the service.              *)

otp_digits == 6
otp_interval == 30
otp_window == 1
rate_limit_requests == 10
rate_limit_window == 60
\* "recent_attempts > 10" and "timedelta(minutes=5)" in verify_otp
RateLimitLiteral == 10
RateWindowSeconds == 300
\* the wrong code of the test suite (test_otp_service.py, Test 4)
invalid_otp == 999999

\* settings.master_secret.encode(): the bytes of "M"
master_secret == <<77>>

\* device_id.encode()
encode(device_id) ==
    CASE device_id = "d1" -> <<100, 49>>
      [] device_id = "d2" -> <<100, 50>>

----------------------------------------------------------------------------
(* Bytes, digests and encodings.                                           *)

RECURSIVE Fold(_, _)
\* a positional checksum of a byte string, the input of the digest stand-in
Fold(bytes, i) ==
    IF i > Len(bytes) THEN 0
    ELSE ((i * (bytes[i] + 1)) + (3 * Fold(bytes, i + 1))) % 9973

\* Stand-in for the library digests: a deterministic function of algorithm,
\* key and message giving n bytes.  alg separates SHA-1 from SHA-256.
Digest(alg, key, msg, n) ==
    LET a == Fold(key, 1)
        b == Fold(msg, 1)
    IN  [i \in 1..n |-> ((a * (i + 3)) + (b * ((2 * i) + 1)) + (7 * i * i) + alg + ((a * b) % 251)) % 256]

\* hmac.new(key, msg, hashlib.sha256).digest()
hmac_sha256(key, msg) == Digest(256, key, msg, 32)

\* hmac.new(key, msg, hashlib.sha1).digest()
hmac_sha1(key, msg) == Digest(1, key, msg, 20)

\* a fingerprint that is the data itself
sha256_hexdigest_identity(data) == data

\* hashlib.sha256(data).hexdigest(): two hex digits per byte
sha256_hexdigest(data) ==
    LET d == Digest(256, <<>>, data, 32)
    IN  [i \in 1..64 |-> IF i % 2 = 1 THEN d[(i + 1) \div 2] \div 16
                                      ELSE d[i \div 2] % 16]

RECURSIVE b64encode_from(_, _)
\* base64.b64encode: 3 bytes give 4 sextets; 64 stands for the pad '='
b64encode_from(b, i) ==
    IF i > Len(b) THEN <<>>
    ELSE LET rem == Len(b) - i + 1
             b0 == b[i]
             b1 == IF rem >= 2 THEN b[i + 1] ELSE 0
             b2 == IF rem >= 3 THEN b[i + 2] ELSE 0
         IN  << b0 \div 4,
                (b0 % 4) * 16 + b1 \div 16,
                IF rem >= 2 THEN (b1 % 16) * 4 + b2 \div 64 ELSE 64,
                IF rem >= 3 THEN b2 % 64 ELSE 64 >>
             \o b64encode_from(b, i + 3)

b64encode(b) == b64encode_from(b, 1)

\* a decoder that stops at the padded group
RECURSIVE b64decode_unpadded(_, _)
b64decode_unpadded(c, i) ==
    IF i > Len(c) \/ c[i + 3] = 64 THEN <<>>
    ELSE << c[i] * 4 + c[i + 1] \div 16,
            (c[i + 1] % 16) * 16 + c[i + 2] \div 4,
            (c[i + 2] % 4) * 64 + c[i + 3] >>
         \o b64decode_unpadded(c, i + 4)

RECURSIVE b64decode_from(_, _)
\* base64.b64decode: 4 sextets give up to 3 bytes
b64decode_from(c, i) ==
    IF i > Len(c) THEN <<>>
    ELSE LET c0 == c[i]
             c1 == c[i + 1]
             c2 == c[i + 2]
             c3 == c[i + 3]
             x2 == IF c2 = 64 THEN 0 ELSE c2
             x3 == IF c3 = 64 THEN 0 ELSE c3
         IN  << c0 * 4 + c1 \div 16 >>
             \o (IF c2 = 64 THEN <<>> ELSE << (c1 % 16) * 16 + x2 \div 4 >>)
             \o (IF c3 = 64 THEN <<>> ELSE << (x2 % 4) * 64 + x3 >>)
             \o b64decode_from(c, i + 4)

b64decode_truncating(c) == b64decode_unpadded(c, 1)

b64decode(c) == b64decode_from(c, 1)

RECURSIVE pack_from(_, _)
\* big-endian bytes of a non-negative integer, k bytes
pack_from(v, k) ==
    IF k = 0 THEN <<>> ELSE pack_from(v \div 256, k - 1) \o << v % 256 >>

\* struct.pack(">Q", time_step): struct.error for a negative value
pack_Q_raises(time_step) == time_step < 0

pack_Q(time_step) == pack_from(time_step, 8)

\* 10 ** digits
RECURSIVE pow10(_)
pow10(digits) == IF digits = 0 THEN 1 ELSE 10 * pow10(digits - 1)

\* dynamic truncation: offset nibble, 4 bytes big-endian, & 0x7FFFFFFF
truncate(hmac_hash) ==
    LET offset == hmac_hash[Len(hmac_hash)] % 16
    IN  (hmac_hash[offset + 1] % 128) * 16777216
        + hmac_hash[offset + 2] * 65536
        + hmac_hash[offset + 3] * 256
        + hmac_hash[offset + 4]

----------------------------------------------------------------------------
(* KeyDerivation and the TOTP engine.                                      *)

\* the derived keys, computed once
derived_keys == [d \in DeviceIds |-> hmac_sha256(master_secret, encode(d))]

\* EnterpriseOTPService.generate_derived_key
generate_derived_key(device_id) == derived_keys[device_id]

\* the time steps the clock can reach, and two steps around them
TimeSteps ==
    LET first == StartTime \div otp_interval
        last == (StartTime + (MaxTicks + MaxTicksRate + 1) * 300) \div otp_interval
    IN  (first - 2)..(last + 2)

\* the body of _generate_otp and of ClientOTP.generate_otp after the time
\* step is known (time_step >= 0)
dynamic_truncation(secret_key, time_step) ==
    truncate(hmac_sha1(secret_key, pack_Q(time_step))) % pow10(otp_digits)

\* the codes of the derived keys at the reachable time steps, computed once
otp_codes ==
    [k \in {derived_keys[d] : d \in DeviceIds}, t \in TimeSteps |->
        dynamic_truncation(k, t)]

\* EnterpriseOTPService._generate_otp (time_step >= 0)
_generate_otp(secret_key, time_step) ==
    IF <<secret_key, time_step>> \in DOMAIN otp_codes
    THEN otp_codes[secret_key, time_step]
    ELSE dynamic_truncation(secret_key, time_step)

\* int(time.time() // settings.otp_interval)
current_time_step(t) == t \div otp_interval

\* the offsets of range(-settings.otp_window, settings.otp_window + 1)
window_offsets == (0 - otp_window)..otp_window

\* EnterpriseOTPService._verify_totp raises struct.error when the first
\* offset gives a negative time step
_verify_totp_raises(t) == pack_Q_raises(current_time_step(t) - otp_window)

\* a verifier that accepts no code once a verification has succeeded
\* inside the window
_verify_totp_single_use(secret_key, otp, t) ==
    /\ \E offset \in window_offsets :
          _generate_otp(secret_key, current_time_step(t) + offset) = otp
    /\ ~\E i \in DOMAIN audit_logs :
          /\ audit_logs[i].action = "OTP_VERIFICATION"
          /\ audit_logs[i].success
          /\ current_time_step(t) - current_time_step(audit_logs[i].timestamp)
                \in window_offsets

\* EnterpriseOTPService._verify_totp at wall clock t
_verify_totp(secret_key, otp, t) ==
    \E offset \in window_offsets :
        _generate_otp(secret_key, current_time_step(t) + offset) = otp

\* ClientOTP(derived_key_b64).generate_otp() at wall clock t
ClientOTP_generate_otp(derived_key_b64, t) ==
    LET derived_key == b64decode(derived_key_b64)
        time_step == t \div otp_interval
    IN  IF <<derived_key, time_step>> \in DOMAIN otp_codes
        THEN otp_codes[derived_key, time_step]
        ELSE dynamic_truncation(derived_key, time_step)

----------------------------------------------------------------------------
(* Tables, sessions and responses.                                         *)

\* a nullable column: <<>> is NULL, <<v>> holds v
NULL == <<>>

\* Device(...) of register_device; usage_count and last_used take the
\* column defaults of database.py
Device(device_id, user_id, derived_key_hash, created_at) ==
    [device_id |-> device_id, user_id |-> user_id,
     derived_key_hash |-> derived_key_hash, is_active |-> TRUE,
     created_at |-> created_at, last_used |-> NULL, usage_count |-> 0,
     deactivated_at |-> NULL]

\* a row that records every attempt as a success
AuditLog_always_success(device_id, action, success, timestamp, ip_address) ==
    [device_id |-> device_id, action |-> action, success |-> TRUE,
     timestamp |-> timestamp, ip_address |-> ip_address]

\* AuditLog(...)
AuditLog(device_id, action, success, timestamp, ip_address) ==
    [device_id |-> device_id, action |-> action, success |-> success,
     timestamp |-> timestamp, ip_address |-> ip_address]

\* an existence query that sees active devices only
query_device_active_only(device_id) ==
    LET rows == {r \in devices : r.device_id = device_id /\ r.is_active}
    IN  IF rows = {} THEN NULL ELSE << CHOOSE r \in rows : TRUE >>

\* db.query(Device).filter(Device.device_id == device_id).first()
query_device(device_id) ==
    LET rows == {r \in devices : r.device_id = device_id}
    IN  IF rows = {} THEN NULL ELSE << CHOOSE r \in rows : TRUE >>

\* a lookup that leaves out the is_active filter
query_active_device_unfiltered(device_id) ==
    LET rows == {r \in devices : r.device_id = device_id}
    IN  IF rows = {} THEN NULL ELSE << CHOOSE r \in rows : TRUE >>

\* db.query(Device).filter(device_id == ..., is_active == True).first()
query_active_device(device_id) ==
    LET rows == {r \in devices : r.device_id = device_id /\ r.is_active}
    IN  IF rows = {} THEN NULL ELSE << CHOOSE r \in rows : TRUE >>

\* a count of the accepted attempts only
\* a limiter whose count never forgets an attempt
recent_attempts_all_time(device_id, t) ==
    Cardinality({i \in DOMAIN audit_logs :
        /\ audit_logs[i].device_id = device_id
        /\ audit_logs[i].action = "OTP_VERIFICATION"})

recent_attempts_accepted(device_id, t) ==
    Cardinality({i \in DOMAIN audit_logs :
        /\ audit_logs[i].device_id = device_id
        /\ audit_logs[i].action = "OTP_VERIFICATION"
        /\ audit_logs[i].success
        /\ audit_logs[i].timestamp > t - RateWindowSeconds})

\* the count() of verify_otp's rate-limit query at wall clock t
recent_attempts(device_id, t) ==
    Cardinality({i \in DOMAIN audit_logs :
        /\ audit_logs[i].device_id = device_id
        /\ audit_logs[i].action = "OTP_VERIFICATION"
        /\ audit_logs[i].timestamp > t - RateWindowSeconds})

\* a service without the rate-limit rejection
rate_limited_never(count) == FALSE

\* "if recent_attempts > 10"
rate_limited(count) == count > RateLimitLiteral

\* a devices table without the primary key
insert_never_conflicts(row) == FALSE

\* the primary key of devices: an INSERT of a present device_id fails
insert_conflicts(row) == \E r \in devices : r.device_id = row.device_id

\* the dict a handler returns
Response(error, valid, derived_key, message) ==
    [error |-> error, valid |-> valid, derived_key |-> derived_key,
     message |-> message]

NoResponse == Response("", NULL, NULL, "")

\* a session between requests
Idle ==
    [pc |-> "idle", op |-> "", device_id |-> "", otp |-> 0, device |-> NULL,
     new_device |-> NULL, is_valid |-> FALSE, stamp |-> 0,
     pending |-> <<>>, response |-> NoResponse,
     started |-> 0, otp_step |-> 0, totp_step |-> 0, fault |-> FALSE,
     raised |-> FALSE, raced |-> FALSE, exists0 |-> FALSE, active0 |-> FALSE, deact0 |-> FALSE,
     audit0 |-> 0, over0 |-> FALSE, count |-> 0]

\* devices and sessions the workload drives, and its cap on audit_logs
\* the general workload: concurrent requests for one device, the clock
\* advancing by one time step
General ==
    [devices |-> {"d1"}, sessions |-> Sessions, max_audit |-> MaxAudit,
     max_wrong |-> MaxAudit, max_ticks |-> MaxTicks, tick_sizes |-> {30}]

\* the rate-limit workload: one request at a time for one device, enough
\* of them to pass the threshold, the clock advancing by one time step, by
\* two minutes or by the whole rate window
Rate ==
    [devices |-> {"d1"}, sessions |-> {1}, max_audit |-> MaxAuditRate,
     max_wrong |-> MaxWrongRate, max_ticks |-> MaxTicksRate,
     tick_sizes |-> TickSizes]

\* the storm workload: concurrent verify calls for one device that has
\* used up the attempts the limit allows it in a row
Storm ==
    [devices |-> {"d1"}, sessions |-> Sessions, max_audit |-> MaxAuditStorm,
     max_wrong |-> 1, max_ticks |-> MaxTicks, tick_sizes |-> {30}]

\* the two-device workload: one request at a time, for either device
Pair ==
    [devices |-> DeviceIds, sessions |-> {1}, max_audit |-> MaxAuditPair,
     max_wrong |-> 1, max_ticks |-> MaxTicks, tick_sizes |-> {30}]

\* the recovery workload: concurrent verify calls with current codes for one
\* device at its limit, before and after the rate-limit window has passed.
\* Its cap leaves room for one more call after the last move of the clock:
\* the rows of the start, the two calls that pass the count together, and
\* two calls per move that were sent before it and are evaluated after it
Recovery ==
    [devices |-> {"d1"}, sessions |-> Sessions,
     max_audit |-> (rate_limit_requests + 1) + 2 + 2 * MaxTicks + 1,
     max_wrong |-> 0, max_ticks |-> MaxTicks, tick_sizes |-> {RateWindowSeconds}]

\* a request reaches a session that is not serving one (get_db opens a
\* fresh session for it); one that is due to write is sent
\* only while the audit trail is below the workload's cap
accepts(s, writes) ==
    /\ s \in workload.sessions
    /\ sess[s].pc \in {"idle", "done"}
    /\ writes => Len(audit_logs) < workload.max_audit

\* history: a committed DEVICE_DEACTIVATED row of the device
deactivated(device_id) ==
    \E i \in DOMAIN audit_logs :
        /\ audit_logs[i].device_id = device_id
        /\ audit_logs[i].action = "DEVICE_DEACTIVATED"

\* history: verification attempts of the device that returned a verdict
\* and started less than the rate window before wall clock t
attempts_made(device_id, t) ==
    Cardinality({i \in DOMAIN attempts[device_id] :
        attempts[device_id][i] > t - RateWindowSeconds})

\* history: committed wrong-code attempts
wrong_attempts ==
    Cardinality({i \in DOMAIN audit_logs :
        audit_logs[i].action = "OTP_VERIFICATION" /\ ~audit_logs[i].success})

\* the codes a caller submits for a device at wall clock t: the code of the
\* current time step, the client's code when it holds a registration
\* response, a code sent again (the code of the time step of an accepted
\* verification, while that step is inside the window), and the wrong code
\* of the test suite
candidate_codes(device_id, t) ==
    {_generate_otp(generate_derived_key(device_id), current_time_step(t))}
    \cup {ClientOTP_generate_otp(key_responses[device_id][i], t) :
            i \in DOMAIN key_responses[device_id]}
    \cup {_generate_otp(generate_derived_key(device_id),
                        current_time_step(audit_logs[i].timestamp)) :
            i \in {j \in DOMAIN audit_logs :
                    /\ audit_logs[j].device_id = device_id
                    /\ audit_logs[j].action = "OTP_VERIFICATION"
                    /\ audit_logs[j].success
                    /\ current_time_step(t) - current_time_step(audit_logs[j].timestamp)
                          \in window_offsets}}
    \cup (IF wrong_attempts < workload.max_wrong THEN {invalid_otp} ELSE {})

----------------------------------------------------------------------------
(* Writes of a commit.                                                     *)

\* an UPDATE that writes every column of the session's object
flush_used_whole_row(device) ==
    {IF r.device_id = device.device_id THEN device ELSE r : r \in devices}

\* the UPDATE that db.commit() flushes for a device whose last_used and
\* usage_count were assigned: only the assigned columns are written
flush_used(device) ==
    {IF r.device_id = device.device_id
        THEN [r EXCEPT !.last_used = device.last_used,
                       !.usage_count = device.usage_count]
        ELSE r : r \in devices}

\* an UPDATE that writes deactivated_at and leaves is_active
flush_deactivated_stamp_only(device) ==
    {IF r.device_id = device.device_id
        THEN [r EXCEPT !.deactivated_at = device.deactivated_at]
        ELSE r : r \in devices}

\* an UPDATE without its WHERE clause
flush_deactivated_all_rows(device) ==
    {[r EXCEPT !.is_active = device.is_active,
               !.deactivated_at = device.deactivated_at] : r \in devices}

\* the UPDATE that db.commit() flushes for a device whose is_active and
\* deactivated_at were assigned
flush_deactivated(device) ==
    {IF r.device_id = device.device_id
        THEN [r EXCEPT !.is_active = device.is_active,
                       !.deactivated_at = device.deactivated_at]
        ELSE r : r \in devices}

\* the session object after "device.last_used = ...; device.usage_count += 1"
used(device, t) ==
    [device EXCEPT !.last_used = <<t>>, !.usage_count = device.usage_count + 1]

\* a handler returns and get_db closes the session ("finally: db.close()"):
\* rows still pending in the session are dropped; the record keeps the
\* response until the next request
return(me, response) ==
    [me EXCEPT !.pc = "done", !.response = response, !.pending = <<>>,
               !.new_device = NULL]

----------------------------------------------------------------------------
(* The service at startup and the TOTP engine under its settings.  The     *)
(* settings come from the environment (config.py); Server and Client of    *)
(* otp.py take them as parameters, and EnterpriseOTPService and ClientOTP  *)
(* run the same code with settings.otp_digits, settings.otp_interval and   *)
(* settings.otp_window.                                                    *)

\* clock advances per behaviour in the engine workload
MaxTicksEngine == 2

\* MASTER_SECRET unset or empty, and the bytes of "M"
MasterSecrets == {<<>>, master_secret}
\* OTP_DIGITS
Digits == {1, 6, 9}
\* OTP_WINDOW
Windows == {0, 1, 2}
\* wall clock at startup: the first time steps of the epoch, and StartTime
EngineStarts == {0, 45, StartTime}
EngineTickSizes == {5, 30, 95}
\* seconds the client's clock is ahead of the server's
ClockSkews == {0 - 60, 0 - 30, 0, 30, 60}

\* a constructor without the check
master_secret_missing_never(secret) == FALSE

\* "if not settings.master_secret" of EnterpriseOTPService.__init__
master_secret_missing(secret) == secret = <<>>

\* a code that is not reduced modulo 10 ** digits
Server_generate_otp_unreduced(secret_key, time_step, digits) ==
    truncate(hmac_sha1(secret_key, pack_Q(time_step)))

\* Server._generate_otp(secret_key, time_step, digits), time_step >= 0
Server_generate_otp(secret_key, time_step, digits) ==
    truncate(hmac_sha1(secret_key, pack_Q(time_step))) % pow10(digits)

\* Server.verify_otp raises struct.error in its first iteration when
\* current_time_step - window is negative
Server_verify_otp_raises(t, interval, window) ==
    pack_Q_raises((t \div interval) - window)

\* a loop over range(-window, window)
Server_verify_otp_half_open(secret_key, otp, t, digits, interval, window) ==
    \E offset \in (0 - window)..(window - 1) :
        Server_generate_otp(secret_key, (t \div interval) + offset, digits) = otp

\* a loop that keeps the comparison of its last iteration only
verify_loop_last_only(secret_key, otp, current, digits, offset, window) ==
    Server_generate_otp(secret_key, current + window, digits) = otp

RECURSIVE verify_loop(_, _, _, _, _, _)
\* "for offset in range(-window, window + 1)" from offset on: return True
\* at the first match, False after the last offset
verify_loop(secret_key, otp, current, digits, offset, window) ==
    IF offset > window THEN FALSE
    ELSE IF Server_generate_otp(secret_key, current + offset, digits) = otp
         THEN TRUE
         ELSE verify_loop(secret_key, otp, current, digits, offset + 1, window)

\* Server.verify_otp after the key is derived, when no iteration raises
Server_verify_otp(secret_key, otp, t, digits, interval, window) ==
    verify_loop(secret_key, otp, t \div interval, digits, 0 - window, window)

\* Client.generate_otp(digits, interval) on a clock that shows t >= 0
Client_generate_otp(derived_key, t, digits, interval) ==
    truncate(hmac_sha1(derived_key, pack_Q(t \div interval))) % pow10(digits)

\* no engine call is under way (the request workloads)
NoEngine ==
    [pc |-> "off", master_secret |-> master_secret, otp_digits |-> otp_digits,
     otp_window |-> otp_window, device_id |-> "", derived_key |-> NULL,
     code |-> NULL, code_step |-> 0, result |-> "", verify_time |-> 0,
     verify_step |-> 0]

\* the engine workload: no request sessions, the clock advancing by
\* seconds, by a time step and by more than three time steps
Engine ==
    [devices |-> DeviceIds, sessions |-> {}, max_audit |-> 0, max_wrong |-> 0,
     max_ticks |-> MaxTicksEngine, tick_sizes |-> EngineTickSizes]

----------------------------------------------------------------------------
(* The state machine.                                                      *)

Init ==
    /\ devices = {}
    /\ audit_logs = <<>>
    /\ now = StartTime
    /\ ticks = 0
    /\ sess = [s \in Sessions |-> Idle]
    /\ key_responses = [d \in DeviceIds |-> <<>>]
    /\ attempts = [d \in DeviceIds |-> <<>>]
    /\ workload = General
    /\ engine = NoEngine

RateInit ==
    /\ devices = {}
    /\ audit_logs = <<>>
    /\ now = StartTime
    /\ ticks = 0
    /\ sess = [s \in Sessions |-> Idle]
    /\ key_responses = [d \in DeviceIds |-> <<>>]
    /\ attempts = [d \in DeviceIds |-> <<>>]
    /\ workload = Rate
    /\ engine = NoEngine

\* register_device, lines 33-61: the existence query, the rejection, and the
\* Device and AuditLog rows added to the session
register_query(s, device_id, user_id) ==
    /\ accepts(s, ~\E r \in devices : r.device_id = device_id)
    /\ LET existing_device == query_device(device_id)
           derived_key == generate_derived_key(device_id)
           me == [Idle EXCEPT !.op = "register", !.device_id = device_id,
                              !.device = existing_device, !.started = now,
                              !.exists0 = (\E r \in devices : r.device_id = device_id)]
       IN  IF existing_device # NULL
           THEN sess' = [sess EXCEPT ![s] =
                    return(me, Response("Device already registered", NULL, NULL, ""))]
           ELSE sess' = [sess EXCEPT ![s] =
                    [me EXCEPT
                        !.pc = "register_commit",
                        !.new_device = << Device(device_id, user_id,
                                            sha256_hexdigest(derived_key), now) >>,
                        !.pending = << AuditLog(device_id, "DEVICE_REGISTERED",
                                                TRUE, now, "unknown") >>]]
    /\ UNCHANGED <<devices, audit_logs, now, ticks, key_responses, attempts, workload, engine>>

\* register_device, lines 62-75: db.commit() and the response, or the
\* exception handler (a store failure, or the primary key of devices)
register_commit(s, fault) ==
    /\ sess[s].pc = "register_commit"
    /\ LET row == sess[s].new_device[1]
           device_id == sess[s].device_id
           derived_key_b64 == b64encode(generate_derived_key(device_id))
       IN  IF fault \/ insert_conflicts(row)
           THEN /\ sess' = [sess EXCEPT ![s] =
                        return([sess[s] EXCEPT
                                    !.fault = fault,
                                    !.raced = (\E r \in devices : r.device_id = device_id)],
                               Response("Registration failed", NULL, NULL, ""))]
                /\ UNCHANGED <<devices, audit_logs, key_responses>>
           ELSE /\ devices' = devices \cup {row}
                /\ audit_logs' = audit_logs \o sess[s].pending
                /\ key_responses' = [key_responses EXCEPT ![device_id] =
                                        Append(@, derived_key_b64)]
                /\ sess' = [sess EXCEPT ![s] =
                        return(sess[s], Response("", NULL, << derived_key_b64 >>,
                                                 "Device registered successfully"))]
    /\ UNCHANGED <<now, ticks, attempts, workload, engine>>

\* verify_otp, lines 81-88: the lookup of the active device and the
\* rejection (its AuditLog row is added to the session and never committed)
verify_query(s, device_id, otp) ==
    /\ accepts(s, /\ \E r \in devices : r.device_id = device_id /\ r.is_active
                  /\ attempts_made(device_id, now) <= rate_limit_requests)
    /\ LET device == query_active_device(device_id)
           me == [Idle EXCEPT
                    !.op = "verify", !.device_id = device_id, !.otp = otp,
                    !.device = device, !.started = now,
                    !.otp_step = current_time_step(now),
                    !.active0 = (\E r \in devices : r.device_id = device_id /\ r.is_active),
                    !.deact0 = deactivated(device_id),
                    !.audit0 = Len(audit_logs)]
       IN  IF device = NULL
           THEN sess' = [sess EXCEPT ![s] =
                    return([me EXCEPT !.pending =
                                << AuditLog(device_id, "INVALID_DEVICE", FALSE,
                                            now, "unknown") >>],
                           Response("Device not found or inactive", << FALSE >>, NULL, ""))]
           ELSE sess' = [sess EXCEPT ![s] = [me EXCEPT !.pc = "verify_rate"]]
    /\ UNCHANGED <<devices, audit_logs, now, ticks, key_responses, attempts, workload, engine>>

\* verify_otp, lines 90-111: the rate-limit count and rejection, the TOTP
\* check, the assignments to the device and the AuditLog row
verify_rate(s) ==
    /\ sess[s].pc = "verify_rate"
    /\ LET device_id == sess[s].device_id
           count == recent_attempts(device_id, now)
           derived_key == generate_derived_key(device_id)
           me == [sess[s] EXCEPT
                    !.over0 = attempts_made(device_id, now) > rate_limit_requests,
                    !.count = count]
       IN  IF rate_limited(count)
           THEN sess' = [sess EXCEPT ![s] =
                    return([me EXCEPT !.pending =
                                << AuditLog(device_id, "RATE_LIMITED", FALSE,
                                            now, "unknown") >>],
                           Response("Rate limit exceeded", << FALSE >>, NULL, ""))]
           ELSE IF _verify_totp_raises(now)
           THEN sess' = [sess EXCEPT ![s] =
                    return([me EXCEPT !.raised = TRUE],
                           Response("Verification failed", << FALSE >>, NULL, ""))]
           ELSE LET is_valid == _verify_totp(derived_key, sess[s].otp, now)
                IN  sess' = [sess EXCEPT ![s] =
                        [me EXCEPT
                            !.pc = "verify_commit",
                            !.is_valid = is_valid,
                            !.stamp = now,
                            !.totp_step = current_time_step(now),
                            !.device = IF is_valid THEN << used(me.device[1], now) >>
                                                   ELSE me.device,
                            !.pending = << AuditLog(device_id, "OTP_VERIFICATION",
                                                    is_valid, now, "unknown") >>]]
    /\ UNCHANGED <<devices, audit_logs, now, ticks, key_responses, attempts, workload, engine>>

\* a handler that answers with the verdict when the commit fails
verify_commit_swallowing(s, fault) ==
    /\ sess[s].pc = "verify_commit"
    /\ IF fault
       THEN /\ sess' = [sess EXCEPT ![s] =
                    return([sess[s] EXCEPT !.fault = TRUE],
                           Response("", << sess[s].is_valid >>, NULL, ""))]
            /\ UNCHANGED <<devices, audit_logs, attempts>>
       ELSE /\ devices' = IF sess[s].is_valid THEN flush_used(sess[s].device[1])
                                              ELSE devices
            /\ audit_logs' = audit_logs \o sess[s].pending
            /\ attempts' = [attempts EXCEPT ![sess[s].device_id] =
                                Append(@, sess[s].started)]
            /\ sess' = [sess EXCEPT ![s] =
                    return(sess[s], Response("", << sess[s].is_valid >>, NULL, ""))]
    /\ UNCHANGED <<now, ticks, key_responses, workload, engine>>

\* verify_otp, lines 112-124: db.commit() and the verdict, or the
\* exception handler
verify_commit(s, fault) ==
    /\ sess[s].pc = "verify_commit"
    /\ IF fault
       THEN /\ sess' = [sess EXCEPT ![s] =
                    return([sess[s] EXCEPT !.fault = TRUE],
                           Response("Verification failed", << FALSE >>, NULL, ""))]
            /\ UNCHANGED <<devices, audit_logs, attempts>>
       ELSE /\ devices' = IF sess[s].is_valid THEN flush_used(sess[s].device[1])
                                              ELSE devices
            /\ audit_logs' = audit_logs \o sess[s].pending
            /\ attempts' = [attempts EXCEPT ![sess[s].device_id] =
                                Append(@, sess[s].started)]
            /\ sess' = [sess EXCEPT ![s] =
                    return(sess[s], Response("", << sess[s].is_valid >>, NULL, ""))]
    /\ UNCHANGED <<now, ticks, key_responses, workload, engine>>

\* a handler without the "if not device" answer
deactivate_query_unchecked(s, device_id) ==
    /\ accepts(s, \E r \in devices : r.device_id = device_id)
    /\ LET device == query_device(device_id)
           me == [Idle EXCEPT !.op = "deactivate", !.device_id = device_id,
                              !.started = now]
       IN  IF device = NULL
           THEN sess' = [sess EXCEPT ![s] =
                    return(me, Response("", NULL, NULL,
                                        "Device deactivated successfully"))]
           ELSE sess' = [sess EXCEPT ![s] =
                    [me EXCEPT
                        !.pc = "deactivate_commit",
                        !.device = << [device[1] EXCEPT !.is_active = FALSE,
                                                        !.deactivated_at = << now >>] >>,
                        !.pending = << AuditLog(device_id, "DEVICE_DEACTIVATED", TRUE,
                                                now, "system") >>]]
    /\ UNCHANGED <<devices, audit_logs, now, ticks, key_responses, attempts, workload, engine>>

\* deactivate_device, lines 164-179: the lookup, the NotFound answer, the
\* assignments to the device and the AuditLog row
deactivate_query(s, device_id) ==
    /\ accepts(s, \E r \in devices : r.device_id = device_id)
    /\ LET device == query_device(device_id)
           me == [Idle EXCEPT !.op = "deactivate", !.device_id = device_id,
                              !.started = now]
       IN  IF device = NULL
           THEN sess' = [sess EXCEPT ![s] =
                    return(me, Response("Device not found", NULL, NULL, ""))]
           ELSE sess' = [sess EXCEPT ![s] =
                    [me EXCEPT
                        !.pc = "deactivate_commit",
                        !.device = << [device[1] EXCEPT !.is_active = FALSE,
                                                        !.deactivated_at = << now >>] >>,
                        !.pending = << AuditLog(device_id, "DEVICE_DEACTIVATED", TRUE,
                                                now, "system") >>]]
    /\ UNCHANGED <<devices, audit_logs, now, ticks, key_responses, attempts, workload, engine>>

\* a rollback that also removes the newest committed audit row
deactivate_commit_truncating(s, fault) ==
    /\ sess[s].pc = "deactivate_commit"
    /\ IF fault
       THEN /\ sess' = [sess EXCEPT ![s] =
                    return([sess[s] EXCEPT !.fault = TRUE],
                           Response("Deactivation failed", NULL, NULL, ""))]
            /\ audit_logs' = SubSeq(audit_logs, 1, Len(audit_logs) - 1)
            /\ UNCHANGED devices
       ELSE /\ devices' = flush_deactivated(sess[s].device[1])
            /\ audit_logs' = audit_logs \o sess[s].pending
            /\ sess' = [sess EXCEPT ![s] =
                    return(sess[s], Response("", NULL, NULL,
                                             "Device deactivated successfully"))]
    /\ UNCHANGED <<now, ticks, key_responses, attempts, workload, engine>>

\* deactivate_device, lines 180-188: db.commit() and the response, or the
\* exception handler
deactivate_commit(s, fault) ==
    /\ sess[s].pc = "deactivate_commit"
    /\ IF fault
       THEN /\ sess' = [sess EXCEPT ![s] =
                    return([sess[s] EXCEPT !.fault = TRUE],
                           Response("Deactivation failed", NULL, NULL, ""))]
            /\ UNCHANGED <<devices, audit_logs>>
       ELSE /\ devices' = flush_deactivated(sess[s].device[1])
            /\ audit_logs' = audit_logs \o sess[s].pending
            /\ sess' = [sess EXCEPT ![s] =
                    return(sess[s], Response("", NULL, NULL,
                                             "Device deactivated successfully"))]
    /\ UNCHANGED <<now, ticks, key_responses, attempts, workload, engine>>

\* the wall clock (time.time(), datetime.utcnow()) advances; a request is
\* short against a time step, so it advances between requests
tick(dt) ==
    /\ ticks < workload.max_ticks
    /\ dt \in workload.tick_sizes
    /\ \A s \in Sessions : sess[s].pc \in {"idle", "done"}
    /\ now' = now + dt
    /\ ticks' = ticks + 1
    /\ UNCHANGED <<devices, audit_logs, sess, key_responses, attempts, workload, engine>>

Next ==
    \/ \E s \in Sessions, d \in workload.devices, u \in UserIds : register_query(s, d, u)
    \/ \E s \in Sessions, fault \in BOOLEAN : register_commit(s, fault)
    \/ \E s \in Sessions, d \in workload.devices :
         \E otp \in candidate_codes(d, now) : verify_query(s, d, otp)
    \/ \E s \in Sessions : verify_rate(s)
    \/ \E s \in Sessions, fault \in BOOLEAN : verify_commit(s, fault)
    \/ \E s \in Sessions, d \in workload.devices : deactivate_query(s, d)
    \/ \E s \in Sessions, fault \in BOOLEAN : deactivate_commit(s, fault)
    \/ \E dt \in TickSizes : tick(dt)

Spec == Init /\ [][Next]_vars

RateSpec == RateInit /\ [][Next]_vars

PairInit ==
    /\ devices = {}
    /\ audit_logs = <<>>
    /\ now = StartTime
    /\ ticks = 0
    /\ sess = [s \in Sessions |-> Idle]
    /\ key_responses = [d \in DeviceIds |-> <<>>]
    /\ attempts = [d \in DeviceIds |-> <<>>]
    /\ workload = Pair
    /\ engine = NoEngine

PairSpec == PairInit /\ [][Next]_vars

\* the tables after register("d1") and rate_limit_requests accepted
\* verifications of d1, all at StartTime
StormInit ==
    /\ devices = {[Device("d1", "u1", sha256_hexdigest(generate_derived_key("d1")),
                          StartTime)
                      EXCEPT !.last_used = << StartTime >>,
                             !.usage_count = rate_limit_requests]}
    /\ audit_logs =
          << AuditLog("d1", "DEVICE_REGISTERED", TRUE, StartTime, "unknown") >>
          \o [i \in 1..rate_limit_requests |->
                AuditLog("d1", "OTP_VERIFICATION", TRUE, StartTime, "unknown")]
    /\ now = StartTime
    /\ ticks = 0
    /\ sess = [s \in Sessions |-> Idle]
    /\ key_responses = [d \in DeviceIds |->
                          IF d = "d1" THEN << b64encode(generate_derived_key(d)) >>
                                      ELSE <<>>]
    /\ attempts = [d \in DeviceIds |->
                     IF d = "d1" THEN [i \in 1..rate_limit_requests |-> StartTime]
                                 ELSE <<>>]
    /\ workload = Storm
    /\ engine = NoEngine

\* verify requests only
StormNext ==
    \/ \E s \in Sessions, d \in workload.devices :
         \E otp \in candidate_codes(d, now) : verify_query(s, d, otp)
    \/ \E s \in Sessions : verify_rate(s)
    \/ \E s \in Sessions, fault \in BOOLEAN : verify_commit(s, fault)
    \/ \E dt \in TickSizes : tick(dt)

StormSpec == StormInit /\ [][StormNext]_vars

\* the rate-limit workload reaches the tables the storm workload starts from
StormStart ==
    /\ now = StartTime
    /\ devices = {[Device("d1", "u1", sha256_hexdigest(generate_derived_key("d1")),
                          StartTime)
                      EXCEPT !.last_used = << StartTime >>,
                             !.usage_count = rate_limit_requests]}
    /\ audit_logs =
          << AuditLog("d1", "DEVICE_REGISTERED", TRUE, StartTime, "unknown") >>
          \o [i \in 1..rate_limit_requests |->
                AuditLog("d1", "OTP_VERIFICATION", TRUE, StartTime, "unknown")]
    /\ key_responses["d1"] = << b64encode(generate_derived_key("d1")) >>
    /\ attempts["d1"] = [i \in 1..rate_limit_requests |-> StartTime]

\* the recovery workload starts from the same tables
RecoveryInit ==
    /\ devices = {[Device("d1", "u1", sha256_hexdigest(generate_derived_key("d1")),
                          StartTime)
                      EXCEPT !.last_used = << StartTime >>,
                             !.usage_count = rate_limit_requests]}
    /\ audit_logs =
          << AuditLog("d1", "DEVICE_REGISTERED", TRUE, StartTime, "unknown") >>
          \o [i \in 1..rate_limit_requests |->
                AuditLog("d1", "OTP_VERIFICATION", TRUE, StartTime, "unknown")]
    /\ now = StartTime
    /\ ticks = 0
    /\ sess = [s \in Sessions |-> Idle]
    /\ key_responses = [d \in DeviceIds |->
                          IF d = "d1" THEN << b64encode(generate_derived_key(d)) >>
                                      ELSE <<>>]
    /\ attempts = [d \in DeviceIds |->
                     IF d = "d1" THEN [i \in 1..rate_limit_requests |-> StartTime]
                                 ELSE <<>>]
    /\ workload = Recovery
    /\ engine = NoEngine

\* the wall clock advances whatever the requests in flight are doing
elapse(dt) ==
    /\ ticks < workload.max_ticks
    /\ dt \in workload.tick_sizes
    /\ now' = now + dt
    /\ ticks' = ticks + 1
    /\ UNCHANGED <<devices, audit_logs, sess, key_responses, attempts, workload, engine>>

\* verify requests while time passes
RecoveryNext ==
    \/ \E s \in Sessions, d \in workload.devices :
         \E otp \in candidate_codes(d, now) : verify_query(s, d, otp)
    \/ \E s \in Sessions : verify_rate(s)
    \/ \E s \in Sessions, fault \in BOOLEAN : verify_commit(s, fault)
    \/ \E dt \in TickSizes : elapse(dt)

\* time passes; every client keeps calling verify; a handler that has run
\* its first query runs on to its commit; the commit does not fail for ever
RecoveryFairness ==
    /\ WF_vars(\E dt \in TickSizes : elapse(dt))
    /\ \A s \in Sessions :
          /\ SF_vars(\E d \in workload.devices :
                       \E otp \in candidate_codes(d, now) : verify_query(s, d, otp))
          /\ WF_vars(verify_rate(s))
          /\ SF_vars(verify_commit(s, FALSE))

RecoverySpec == RecoveryInit /\ [][RecoveryNext]_vars /\ RecoveryFairness

----------------------------------------------------------------------------
(* The HTTP endpoints (main.py): authentication in front of the handlers.  *)

\* settings.api_key
api_key == "k1"

\* the Authorization header of a client: none, a bearer token that is not
\* the API key, the API key
Credentials == {NULL, << "k0" >>, << api_key >>}

\* HTTPBearer(): a request without bearer credentials is refused
HTTPBearer_raises(authorization) == authorization = NULL

\* a dependency that lets every token pass
verify_api_key_never_raises(credentials) == FALSE

\* verify_api_key: "if not settings.api_key or credentials.credentials !=
\* settings.api_key: raise HTTPException(401)"
verify_api_key_raises(credentials) == api_key = "" \/ credentials # api_key

\* the dependencies of an endpoint: the detail of the refusal, "" when the
\* request passes
authentication_error(authorization) ==
    IF HTTPBearer_raises(authorization) THEN "Not authenticated"
    ELSE IF verify_api_key_raises(authorization[1]) THEN "Invalid API key"
    ELSE ""

\* the general workload with the credentials each client presents: client
\* 1 holds the API key
ApiInit ==
    /\ devices = {}
    /\ audit_logs = <<>>
    /\ now = StartTime
    /\ ticks = 0
    /\ sess = [s \in Sessions |-> Idle]
    /\ key_responses = [d \in DeviceIds |-> <<>>]
    /\ attempts = [d \in DeviceIds |-> <<>>]
    /\ workload \in {General @@ [credentials |->
                                    [s \in Sessions |-> IF s = 1 THEN << api_key >> ELSE c]] :
                        c \in Credentials}
    /\ engine = NoEngine

\* a dependency raises HTTPException: the endpoint body does not run, and
\* the session get_db opened is closed unused
unauthorized(s, op, device_id, otp, detail) ==
    /\ accepts(s, FALSE)
    /\ sess' = [sess EXCEPT ![s] =
                return([Idle EXCEPT !.op = op, !.device_id = device_id,
                                    !.otp = otp, !.started = now],
                       Response(detail, NULL, NULL, ""))]
    /\ UNCHANGED <<devices, audit_logs, now, ticks, key_responses, attempts, workload, engine>>

\* POST /api/v1/devices/register
api_register_device(s, device_id, user_id) ==
    LET detail == authentication_error(workload.credentials[s])
    IN  IF detail # "" THEN unauthorized(s, "register", device_id, 0, detail)
        ELSE register_query(s, device_id, user_id)

\* POST /api/v1/otp/verify
api_verify_otp(s, device_id, otp) ==
    LET detail == authentication_error(workload.credentials[s])
    IN  IF detail # "" THEN unauthorized(s, "verify", device_id, otp, detail)
        ELSE verify_query(s, device_id, otp)

\* POST /api/v1/devices/{device_id}/deactivate
api_deactivate_device(s, device_id) ==
    LET detail == authentication_error(workload.credentials[s])
    IN  IF detail # "" THEN unauthorized(s, "deactivate", device_id, 0, detail)
        ELSE deactivate_query(s, device_id)

ApiNext ==
    \/ \E s \in Sessions, d \in workload.devices, u \in UserIds :
         api_register_device(s, d, u)
    \/ \E s \in Sessions, fault \in BOOLEAN : register_commit(s, fault)
    \/ \E s \in Sessions, d \in workload.devices :
         \E otp \in candidate_codes(d, now) : api_verify_otp(s, d, otp)
    \/ \E s \in Sessions : verify_rate(s)
    \/ \E s \in Sessions, fault \in BOOLEAN : verify_commit(s, fault)
    \/ \E s \in Sessions, d \in workload.devices : api_deactivate_device(s, d)
    \/ \E s \in Sessions, fault \in BOOLEAN : deactivate_commit(s, fault)
    \/ \E dt \in TickSizes : tick(dt)

ApiSpec == ApiInit /\ [][ApiNext]_vars

----------------------------------------------------------------------------
(* Startup and the engine calls.                                           *)

EngineInit ==
    /\ devices = {}
    /\ audit_logs = <<>>
    /\ now \in EngineStarts
    /\ ticks = 0
    /\ sess = [s \in Sessions |-> Idle]
    /\ key_responses = [d \in DeviceIds |-> <<>>]
    /\ attempts = [d \in DeviceIds |-> <<>>]
    /\ workload = Engine
    /\ engine \in {[NoEngine EXCEPT !.pc = "startup", !.master_secret = m,
                                    !.otp_digits = g, !.otp_window = w] :
                     m \in MasterSecrets, g \in Digits, w \in Windows}

\* "otp_service = EnterpriseOTPService()" of main.py: __init__ raises
\* ValueError for an empty master secret and the application does not start
startup ==
    /\ engine.pc = "startup"
    /\ engine' = [engine EXCEPT !.pc =
                    IF master_secret_missing(engine.master_secret)
                    THEN "failed" ELSE "ready"]
    /\ UNCHANGED <<devices, audit_logs, now, ticks, sess, key_responses, attempts, workload>>

\* generate_derived_key(device_id) on the constructed service, as
\* register_device and verify_otp call it
derive(device_id) ==
    /\ engine.pc = "ready"
    /\ engine.derived_key = NULL
    /\ engine' = [engine EXCEPT
                    !.device_id = device_id,
                    !.derived_key = << hmac_sha256(engine.master_secret,
                                                   encode(device_id)) >>]
    /\ UNCHANGED <<devices, audit_logs, now, ticks, sess, key_responses, attempts, workload>>

\* the client generates the code of the time step its clock shows
client_generate(skew) ==
    /\ engine.derived_key # NULL
    /\ engine.code = NULL
    /\ now + skew >= 0
    /\ engine' = [engine EXCEPT
                    !.code = << Client_generate_otp(engine.derived_key[1], now + skew,
                                                    engine.otp_digits, otp_interval) >>,
                    !.code_step = (now + skew) \div otp_interval]
    /\ UNCHANGED <<devices, audit_logs, now, ticks, sess, key_responses, attempts, workload>>

\* the server verifies the client's code at its wall clock
server_verify ==
    /\ engine.pc = "ready"
    /\ engine.code # NULL
    /\ engine' = [engine EXCEPT
                    !.verify_time = now,
                    !.verify_step = now \div otp_interval,
                    !.result =
                        IF Server_verify_otp_raises(now, otp_interval, engine.otp_window)
                        THEN "raised"
                        ELSE IF Server_verify_otp(engine.derived_key[1], engine.code[1],
                                                  now, engine.otp_digits, otp_interval,
                                                  engine.otp_window)
                             THEN "true" ELSE "false"]
    /\ UNCHANGED <<devices, audit_logs, now, ticks, sess, key_responses, attempts, workload>>

EngineNext ==
    \/ startup
    \/ \E d \in DeviceIds : derive(d)
    \/ \E skew \in ClockSkews : client_generate(skew)
    \/ server_verify
    \/ \E dt \in EngineTickSizes : tick(dt)

EngineSpec == EngineInit /\ [][EngineNext]_vars

----------------------------------------------------------------------------
(* Vocabulary of the properties.                                           *)

rows_of(device_id) == {r \in devices : r.device_id = device_id}

events_of(device_id, action) ==
    {i \in DOMAIN audit_logs :
        audit_logs[i].device_id = device_id /\ audit_logs[i].action = action}

\* session s holds the response of a finished call of operation op
returned(s, op) == sess[s].pc = "done" /\ sess[s].op = op

registered_ok(response) == response.error = "" /\ response.derived_key # NULL

unavailable(response) ==
    response.error = "Device not found or inactive" /\ response.valid = << FALSE >>

\* the code the server computes for the time step at which the call started
correct_code(s) ==
    _generate_otp(generate_derived_key(sess[s].device_id), sess[s].otp_step)

----------------------------------------------------------------------------
(* C1: for every device_id the store never holds more than one row, it     *)
(* holds exactly one once a registration has succeeded, a register call    *)
(* that finds the device present (active or inactive) is rejected with     *)
(* "Device already registered", and one that finds and meets no row and    *)
(* no store failure succeeds.                                              *)
C1_RegisterOnce ==
    /\ \A d \in DeviceIds :
        /\ Cardinality(rows_of(d)) <= 1
        /\ Len(key_responses[d]) >= 1 => Cardinality(rows_of(d)) = 1
    /\ \A s \in Sessions : returned(s, "register") =>
        /\ sess[s].exists0 => sess[s].response.error = "Device already registered"
        /\ (~sess[s].exists0 /\ ~sess[s].fault /\ ~sess[s].raced)
              => registered_ok(sess[s].response)

\* a second register call for a deactivated device has been rejected
C1_Witness ==
    \E s \in Sessions :
        /\ returned(s, "register")
        /\ sess[s].exists0
        /\ sess[s].response.error = "Device already registered"
        /\ \E r \in rows_of(sess[s].device_id) : ~r.is_active

(* C2: of register calls for one device_id that interleave, each one that  *)
(* meets no store failure returns success or "Device already registered".  *)
C2_ConcurrentRegister ==
    \A s \in Sessions : (returned(s, "register") /\ ~sess[s].fault) =>
        \/ registered_ok(sess[s].response)
        \/ sess[s].response.error = "Device already registered"

(* C3: a verify call for a device_id with no active row at its lookup      *)
(* answers "Device not found or inactive" with valid = false, whatever the *)
(* code.                                                                   *)
C3_UnavailableDevice ==
    \A s \in Sessions : (returned(s, "verify") /\ ~sess[s].active0) =>
        unavailable(sess[s].response)

\* the correct code of the current time step was refused for an inactive device
C3_Witness ==
    \E s \in Sessions :
        /\ returned(s, "verify")
        /\ ~sess[s].active0
        /\ sess[s].otp = correct_code(s)
        /\ rows_of(sess[s].device_id) # {}
        /\ unavailable(sess[s].response)

(* C4: a verify call that starts after a deactivation of its device has    *)
(* committed answers "Device not found or inactive" with valid = false.    *)
C4_DeactivationWins ==
    \A s \in Sessions : (returned(s, "verify") /\ sess[s].deact0) =>
        unavailable(sess[s].response)

\* a code accepted before the deactivation was refused after it
C4_Witness ==
    \E s \in Sessions, i, j \in DOMAIN audit_logs :
        /\ returned(s, "verify")
        /\ sess[s].deact0
        /\ sess[s].otp = correct_code(s)
        /\ i < j
        /\ audit_logs[i].action = "OTP_VERIFICATION" /\ audit_logs[i].success
        /\ audit_logs[j].action = "DEVICE_DEACTIVATED"
        /\ unavailable(sess[s].response)

(* C5: no step takes a device row from inactive to active or removes it.   *)
C5_DeactivationTerminal ==
    [][\A r \in devices : ~r.is_active =>
          /\ \E q \in devices' : q.device_id = r.device_id
          /\ \A q \in devices' : q.device_id = r.device_id => ~q.is_active]_vars

\* a verification that looked the device up before its deactivation has
\* committed after it, and the device is inactive
C5_Witness ==
    \E s \in Sessions, i, j \in DOMAIN audit_logs :
        /\ returned(s, "verify")
        /\ sess[s].response.valid = << TRUE >>
        /\ i < j
        /\ audit_logs[i].action = "DEVICE_DEACTIVATED"
        /\ audit_logs[j].action = "OTP_VERIFICATION"
        /\ \A r \in rows_of(sess[s].device_id) : ~r.is_active

C7_VerifyAudited ==
    \A s \in Sessions :
        (returned(s, "verify") /\ ~sess[s].fault /\ ~sess[s].raised) =>
            \E i \in DOMAIN audit_logs :
                /\ i > sess[s].audit0
                /\ audit_logs[i].device_id = sess[s].device_id

(* C8: a device row exists for a device_id exactly when one                *)
(* DEVICE_REGISTERED event exists for it, and never more than one.         *)
C8_RegistrationAtomic ==
    \A d \in DeviceIds :
        /\ Cardinality(events_of(d, "DEVICE_REGISTERED")) <= 1
        /\ (rows_of(d) # {}) <=> (Cardinality(events_of(d, "DEVICE_REGISTERED")) = 1)

\* a register call has failed and left neither row nor event
C8_Witness ==
    \E s \in Sessions :
        /\ returned(s, "register")
        /\ sess[s].response.error = "Registration failed"
        /\ rows_of(sess[s].device_id) = {}
        /\ events_of(sess[s].device_id, "DEVICE_REGISTERED") = {}

(* C9: at most one response per device_id carries the derived key, only a  *)
(* register response does, and no device row holds the key or its base64   *)
(* form.                                                                   *)
C9_SecretOnce ==
    /\ \A d \in DeviceIds :
        /\ Len(key_responses[d]) <= 1
        /\ \A r \in rows_of(d) :
            /\ r.derived_key_hash # generate_derived_key(d)
            /\ r.derived_key_hash # b64encode(generate_derived_key(d))
    /\ \A s \in Sessions : sess[s].response.derived_key # NULL =>
        /\ sess[s].op = "register"
        /\ key_responses[sess[s].device_id] = sess[s].response.derived_key

\* the key has gone out once, and a later register call got none
C9_Witness ==
    \E s \in Sessions :
        /\ returned(s, "register")
        /\ sess[s].exists0
        /\ sess[s].response.derived_key = NULL
        /\ Len(key_responses[sess[s].device_id]) = 1
        /\ rows_of(sess[s].device_id) # {}

(* C10: the key a registration returned decodes to the key the server      *)
(* derives, and the code the client computes from it is accepted by a      *)
(* verify call that evaluates it in the same time step.                    *)
C10_ClientCodeAccepted ==
    /\ \A d \in DeviceIds : \A i \in DOMAIN key_responses[d] :
        b64decode(key_responses[d][i]) = generate_derived_key(d)
    /\ \A s \in Sessions :
        (/\ returned(s, "verify")
         /\ sess[s].response.error = ""
         /\ key_responses[sess[s].device_id] # <<>>
         /\ sess[s].otp = ClientOTP_generate_otp(key_responses[sess[s].device_id][1],
                                                 sess[s].started)
         /\ sess[s].totp_step = sess[s].otp_step)
        => sess[s].response.valid = << TRUE >>

\* the client's code was accepted
C10_Witness ==
    \E s \in Sessions :
        /\ returned(s, "verify")
        /\ key_responses[sess[s].device_id] # <<>>
        /\ sess[s].otp = ClientOTP_generate_otp(key_responses[sess[s].device_id][1],
                                                sess[s].started)
        /\ sess[s].response.valid = << TRUE >>

(* C11: a verification of the code of the current time step, made at a    *)
(* clock inside that time step, returns true, for every window >= 0 and    *)
(* every time >= 0.                                                        *)
C11_RoundTrip ==
    (engine.result # "" /\ engine.code_step = engine.verify_step) =>
        engine.result = "true"

C13_FailureNotSuccess ==
    [][\A s \in Sessions :
        (/\ sess[s].pc \in {"verify_rate", "verify_commit"}
         /\ sess'[s].pc = "done"
         /\ (sess'[s].fault \/ sess'[s].raised)) =>
            /\ sess'[s].response.error = "Verification failed"
            /\ sess'[s].response.valid # << TRUE >>
            /\ sess'[s].response # Response("", << FALSE >>, NULL, "")
            /\ devices' = devices
            /\ audit_logs' = audit_logs]_vars

\* the commit of a correct code has failed: error answer, no usage, no event
C13_Witness ==
    \E s \in Sessions :
        /\ returned(s, "verify")
        /\ sess[s].fault
        /\ sess[s].is_valid
        /\ sess[s].response.error = "Verification failed"
        /\ events_of(sess[s].device_id, "OTP_VERIFICATION") = {}
        /\ \A r \in rows_of(sess[s].device_id) :
            r.usage_count = 0 /\ r.last_used = NULL

(* C14: usage_count and last_used of a device row change only in the step  *)
(* in which a verify call of that device returns valid = true, and every   *)
(* such step raises usage_count by exactly 1.                              *)
C14_UsageOnlyOnSuccess ==
    [][\A r \in devices : \A q \in devices' : q.device_id = r.device_id =>
        LET valid_return ==
                \E s \in Sessions :
                    /\ sess[s].pc = "verify_commit"
                    /\ sess[s].device_id = r.device_id
                    /\ sess'[s].pc = "done"
                    /\ sess'[s].response.valid = << TRUE >>
        IN  /\ (q.usage_count # r.usage_count \/ q.last_used # r.last_used)
                  => valid_return
            /\ valid_return => q.usage_count = r.usage_count + 1]_vars

(* C15: a device has at most one DEVICE_DEACTIVATED event, and its         *)
(* deactivated_at is the time of the first one.                            *)
C15_DeactivatedOnce ==
    \A d \in DeviceIds :
        LET events == events_of(d, "DEVICE_DEACTIVATED")
        IN  /\ Cardinality(events) <= 1
            /\ \A r \in rows_of(d) : \A i \in events :
                (\A j \in events : i <= j) =>
                    r.deactivated_at = << audit_logs[i].timestamp >>

(* C16: a deactivate call for a device_id that has no row returns at       *)
(* once with "Device not found", and its step leaves the device rows and   *)
(* the audit trail as they were.                                           *)
C16_DeactivateNotFound ==
    [][\A s \in Sessions :
        (/\ sess[s].pc \in {"idle", "done"}
         /\ sess'[s] # sess[s]
         /\ sess'[s].op = "deactivate"
         /\ rows_of(sess'[s].device_id) = {}) =>
            /\ sess'[s].pc = "done"
            /\ sess'[s].response.error = "Device not found"
            /\ devices' = devices
            /\ audit_logs' = audit_logs]_vars

\* a device whose registration failed was not found, and nothing was written
C16_Witness ==
    \E s, t \in Sessions :
        /\ returned(s, "deactivate")
        /\ sess[s].response.error = "Device not found"
        /\ returned(t, "register")
        /\ sess[t].device_id = sess[s].device_id
        /\ sess[t].response.error = "Registration failed"
        /\ devices = {}
        /\ audit_logs = <<>>

(* C17: the step in which a register call returns "Device already          *)
(* registered" adds one event of that device_id to the audit trail.        *)
C17_RejectionAudited ==
    [][\A s \in Sessions :
        (/\ sess'[s] # sess[s]
         /\ sess'[s].pc = "done"
         /\ sess'[s].op = "register"
         /\ sess'[s].response.error = "Device already registered") =>
            Cardinality({i \in DOMAIN audit_logs' :
                            audit_logs'[i].device_id = sess'[s].device_id})
              = Cardinality({i \in DOMAIN audit_logs :
                            audit_logs[i].device_id = sess'[s].device_id}) + 1]_vars

(* C18: in every step the audit trail before the step is a prefix of the   *)
(* audit trail after it.                                                   *)
C18_AppendOnly ==
    [][/\ Len(audit_logs') >= Len(audit_logs)
       /\ SubSeq(audit_logs', 1, Len(audit_logs)) = audit_logs]_vars

\* a deactivation has failed and the events committed so far are in place
C18_Witness ==
    \E s \in Sessions :
        /\ returned(s, "deactivate")
        /\ sess[s].fault
        /\ Len(audit_logs) >= 2
        /\ audit_logs[1].action = "DEVICE_REGISTERED"
        /\ audit_logs[2].action = "OTP_VERIFICATION"
        /\ audit_logs[2].timestamp <= sess[s].started

(* C19: the code of a key and a time step is the 31-bit truncation value   *)
(* modulo 10^digits, lies in 0 .. 10^digits - 1 for every digits >= 1, and *)
(* is the same whenever and by whichever side it is computed.              *)
C19_CodeRange ==
    engine.code # NULL =>
        LET hmac_hash == hmac_sha1(engine.derived_key[1], pack_Q(engine.code_step))
            code_at == Server_generate_otp(engine.derived_key[1], engine.code_step,
                                           engine.otp_digits)
        IN  /\ truncate(hmac_hash) \in 0..2147483647
            /\ code_at \in 0..((10 ^ engine.otp_digits) - 1)
            /\ code_at = truncate(hmac_hash) % (10 ^ engine.otp_digits)
            /\ engine.code[1] = code_at

\* a nine-digit code that needs more than six digits
C19_Witness ==
    /\ engine.code # NULL
    /\ engine.otp_digits = 9
    /\ engine.code[1] >= 1000000
    /\ engine.result = "true"

(* C20: with an empty master secret the service is never constructed and   *)
(* no key or code is derived; a constructed service holds a non-empty      *)
(* master secret, and construction fails for no other reason.              *)
C20_EmptySecretFatal ==
    /\ engine.master_secret = <<>> =>
        /\ engine.pc \in {"startup", "failed"}
        /\ engine.derived_key = NULL
        /\ engine.code = NULL
    /\ engine.pc \in {"off", "ready"} => Len(engine.master_secret) > 0
    /\ engine.pc = "failed" => engine.master_secret = <<>>
    /\ engine.derived_key # NULL =>
        engine.derived_key[1] # hmac_sha256(<<>>, encode(engine.device_id))

\* startup has failed on an empty master secret
C20_Witness ==
    /\ engine.pc = "failed"
    /\ engine.master_secret = <<>>
    /\ engine.derived_key = NULL

(* C21: a verify call made over the rate limit returns from its           *)
(* rate-limit step with "Rate limit exceeded": the TOTP check is not       *)
(* evaluated, whatever the code, and the device rows and the audit trail   *)
(* stay as they were.                                                      *)
C21_LimitedBeforeTotp ==
    [][\A s \in Sessions :
        (/\ sess[s].pc = "verify_rate"
         /\ sess'[s].pc # "verify_rate"
         /\ sess'[s].over0) =>
            /\ sess'[s].pc = "done"
            /\ sess'[s].response.error = "Rate limit exceeded"
            /\ sess'[s].totp_step = 0
            /\ ~sess'[s].is_valid
            /\ sess'[s].device = sess[s].device
            /\ devices' = devices
            /\ audit_logs' = audit_logs]_vars

\* the correct code was rate limited after a time step; the last use of the
\* device is older than the call and every use has its event
C21_Witness ==
    \E s \in Sessions :
        /\ returned(s, "verify")
        /\ sess[s].over0
        /\ sess[s].otp = correct_code(s)
        /\ sess[s].response.error = "Rate limit exceeded"
        /\ \E r \in rows_of(sess[s].device_id) :
            /\ r.last_used # NULL
            /\ r.last_used[1] < sess[s].started
            /\ r.usage_count >= rate_limit_requests

C23_AttemptCount ==
    \A s \in Sessions :
        (returned(s, "verify") /\ sess[s].active0 /\ ~sess[s].fault) =>
            LET counted ==
                    Cardinality({i \in 1..sess[s].audit0 :
                        /\ audit_logs[i].device_id = sess[s].device_id
                        /\ audit_logs[i].action \in {"OTP_VERIFICATION", "INVALID_DEVICE"}
                        /\ audit_logs[i].timestamp >= sess[s].started - RateWindowSeconds
                        /\ audit_logs[i].timestamp <= sess[s].started})
            IN  /\ sess[s].count = counted
                /\ sess[s].response.error = "Rate limit exceeded"
                      <=> counted > rate_limit_requests

(* C24: the count a verify call uses for its rate-limit decision is taken  *)
(* over the configured window settings.rate_limit_window, and the call is  *)
(* rate limited exactly when it exceeds settings.rate_limit_requests.      *)
C24_ConfiguredLimit ==
    \A s \in Sessions :
        (returned(s, "verify") /\ sess[s].active0 /\ ~sess[s].fault) =>
            LET counted ==
                    Cardinality({i \in 1..sess[s].audit0 :
                        /\ audit_logs[i].device_id = sess[s].device_id
                        /\ audit_logs[i].action = "OTP_VERIFICATION"
                        /\ audit_logs[i].timestamp > sess[s].started - rate_limit_window})
            IN  /\ sess[s].count = counted
                /\ sess[s].response.error = "Rate limit exceeded"
                      <=> counted > rate_limit_requests

(* C25: the step in which a verify call returns a verdict appends one      *)
(* OTP_VERIFICATION event of its device whose success flag is the verdict; *)
(* the answer carries no error, and the wrong code of the test suite gets  *)
(* valid = false.                                                          *)
C25_EventMatchesVerdict ==
    [][\A s \in Sessions :
        (/\ sess[s].pc = "verify_commit"
         /\ sess'[s].pc = "done"
         /\ ~sess'[s].fault) =>
            /\ Len(audit_logs') = Len(audit_logs) + 1
            /\ LET event == audit_logs'[Len(audit_logs')]
               IN  /\ event.device_id = sess[s].device_id
                   /\ event.action = "OTP_VERIFICATION"
                   /\ event.success <=> sess'[s].response.valid = << TRUE >>
            /\ sess'[s].response.error = ""
            /\ sess'[s].response.valid \in {<< TRUE >>, << FALSE >>}
            /\ sess[s].otp = invalid_otp => sess'[s].response.valid = << FALSE >>]_vars

\* the wrong code got the plain valid = false answer and a success = false event
C25_Witness ==
    \E s \in Sessions :
        /\ returned(s, "verify")
        /\ sess[s].otp = invalid_otp
        /\ sess[s].response = Response("", << FALSE >>, NULL, "")
        /\ audit_logs # <<>>
        /\ LET event == audit_logs[Len(audit_logs)]
           IN  /\ event.device_id = sess[s].device_id
               /\ event.action = "OTP_VERIFICATION"
               /\ ~event.success
               /\ event.timestamp = sess[s].stamp

(* C29: usage_count of every device row is the number of committed         *)
(* successful OTP_VERIFICATION events of the device.                       *)
C29_UsageMatchesEvents ==
    \A d \in DeviceIds : \A r \in rows_of(d) :
        r.usage_count =
            Cardinality({i \in events_of(d, "OTP_VERIFICATION") : audit_logs[i].success})

(* C30: no successful OTP_VERIFICATION event of a device follows a         *)
(* DEVICE_DEACTIVATED event of it, and no step changes usage_count or      *)
(* last_used of an inactive device row.                                    *)
C30_NoUseAfterDeactivation ==
    [][/\ \A i, j \in DOMAIN audit_logs' :
            (/\ i < j
             /\ audit_logs'[i].action = "DEVICE_DEACTIVATED"
             /\ audit_logs'[j].device_id = audit_logs'[i].device_id
             /\ audit_logs'[j].action = "OTP_VERIFICATION")
                => ~audit_logs'[j].success
       /\ \A r \in devices : \A q \in devices' :
            (q.device_id = r.device_id /\ ~r.is_active) =>
                (q.usage_count = r.usage_count /\ q.last_used = r.last_used)]_vars

(* C26: for every device, the verify calls that have passed the          *)
(* rate-limit check inside the current rolling window (the committed       *)
(* OTP_VERIFICATION events of the window and the calls between their TOTP  *)
(* check and their commit) are at most rate_limit_requests + 1.            *)
C26_StormBounded ==
    \A d \in DeviceIds :
        Cardinality({i \in events_of(d, "OTP_VERIFICATION") :
                        audit_logs[i].timestamp > now - RateWindowSeconds})
        + Cardinality({s \in Sessions :
                        sess[s].pc = "verify_commit" /\ sess[s].device_id = d})
            <= rate_limit_requests + 1

(* C27: a step of a call for one device_id leaves the rows of every other  *)
(* device, the audit events of every other device and the rate-limit count *)
(* of every other device as they were.                                     *)
C27_DeviceScoped ==
    [][\A s \in Sessions : sess'[s] # sess[s] =>
        \A b \in DeviceIds \ {sess'[s].device_id} :
            /\ {r \in devices' : r.device_id = b} = rows_of(b)
            /\ {i \in DOMAIN audit_logs' : audit_logs'[i].device_id = b}
                 = {i \in DOMAIN audit_logs : audit_logs[i].device_id = b}
            /\ \A i \in DOMAIN audit_logs :
                 audit_logs[i].device_id = b => audit_logs'[i] = audit_logs[i]
            /\ recent_attempts(b, now)' = recent_attempts(b, now)
            /\ rate_limited(recent_attempts(b, now))'
                 = rate_limited(recent_attempts(b, now))]_vars

\* one device was deactivated while the other one, used once, stayed active
C27_Witness ==
    \E s \in Sessions, a, b \in DeviceIds :
        /\ a # b
        /\ returned(s, "deactivate")
        /\ sess[s].device_id = a
        /\ sess[s].response.error = ""
        /\ \A r \in rows_of(a) : ~r.is_active
        /\ rows_of(b) # {}
        /\ \A r \in rows_of(b) :
            r.is_active /\ r.usage_count = 1 /\ r.deactivated_at = NULL
        /\ recent_attempts(b, now) = 1

(* C28: a request of a client whose bearer credentials are missing or      *)
(* are not the API key is answered at once with the refusal of the         *)
(* authentication dependencies; no lookup is made, and the device rows and *)
(* the audit trail stay as they were.                                      *)
C28_Unauthorized ==
    [][\A s \in Sessions :
        (workload.credentials[s] # << api_key >> /\ sess'[s] # sess[s]) =>
            /\ sess[s].pc \in {"idle", "done"}
            /\ sess'[s].pc = "done"
            /\ sess'[s].response.error =
                 (IF workload.credentials[s] = NULL THEN "Not authenticated"
                                                    ELSE "Invalid API key")
            /\ sess'[s].response.valid = NULL
            /\ sess'[s].response.derived_key = NULL
            /\ sess'[s].device = NULL
            /\ devices' = devices
            /\ audit_logs' = audit_logs]_vars

\* the code that client 1 had verified was sent with a wrong token and
\* refused: the device is as the accepted call left it
C28_Witness ==
    \E s \in Sessions :
        /\ workload.credentials[s] = << "k0" >>
        /\ returned(s, "verify")
        /\ sess[s].response.error = "Invalid API key"
        /\ sess[s].otp = _generate_otp(generate_derived_key(sess[s].device_id),
                                       current_time_step(sess[s].started))
        /\ Len(audit_logs) = 2
        /\ sess[s].started >= audit_logs[2].timestamp
        /\ \E r \in rows_of(sess[s].device_id) : r.is_active /\ r.usage_count = 1

(* C31: a verify call that is evaluated (active device, not rate limited,  *)
(* no failure) accepts the code of the time step of an earlier accepted    *)
(* verification of the device whenever that time step is inside the window *)
(* of the call.                                                            *)
C31_Replayable ==
    \A s \in Sessions :
        (/\ returned(s, "verify")
         /\ sess[s].response.error = ""
         /\ \E i \in 1..sess[s].audit0 :
              /\ audit_logs[i].device_id = sess[s].device_id
              /\ audit_logs[i].action = "OTP_VERIFICATION"
              /\ audit_logs[i].success
              /\ sess[s].otp = _generate_otp(generate_derived_key(sess[s].device_id),
                                             current_time_step(audit_logs[i].timestamp))
              /\ sess[s].totp_step - current_time_step(audit_logs[i].timestamp)
                    \in window_offsets)
            => sess[s].response.valid = << TRUE >>

\* the code accepted in one time step was accepted again in the next
C31_Witness ==
    \E s \in Sessions : \E i \in 1..sess[s].audit0 :
        /\ returned(s, "verify")
        /\ sess[s].response.valid = << TRUE >>
        /\ audit_logs[i].device_id = sess[s].device_id
        /\ audit_logs[i].action = "OTP_VERIFICATION"
        /\ audit_logs[i].success
        /\ sess[s].otp = _generate_otp(generate_derived_key(sess[s].device_id),
                                       current_time_step(audit_logs[i].timestamp))
        /\ sess[s].totp_step = current_time_step(audit_logs[i].timestamp) + 1
        /\ \E r \in rows_of(sess[s].device_id) : r.usage_count = 2

(* C32: once a verify call for an active device has been refused with     *)
(* "Rate limit exceeded", a verify call for the device that is evaluated   *)
(* after the rate-limit window has passed is eventually accepted (its      *)
(* accepted attempt is committed), however many refused calls arrive in    *)
(* between.                                                                *)
C32_LimitLifts ==
    \A d \in DeviceIds :
        (\E s \in Sessions :
            /\ returned(s, "verify")
            /\ sess[s].device_id = d
            /\ sess[s].response.error = "Rate limit exceeded")
        ~> (\E i \in DOMAIN audit_logs :
            /\ audit_logs[i].device_id = d
            /\ audit_logs[i].action = "OTP_VERIFICATION"
            /\ audit_logs[i].success
            /\ audit_logs[i].timestamp >= StartTime + RateWindowSeconds)

\* one client still holds the refusal of the window that has passed, the
\* other has been accepted; the refusals left no row
C32_Witness ==
    \E s1, s2 \in Sessions :
        /\ returned(s1, "verify")
        /\ sess[s1].response.error = "Rate limit exceeded"
        /\ sess[s1].started = StartTime
        /\ returned(s2, "verify")
        /\ sess[s2].response.valid = << TRUE >>
        /\ sess[s2].stamp >= StartTime + RateWindowSeconds
        /\ sess[s2].count = 0
        /\ \A i \in DOMAIN audit_logs : audit_logs[i].action # "RATE_LIMITED"

====
